---- MODULE Spec2Model ----
(***************************************************************************)
(* FleetOTA: the vehicle telemetry simulator (vehicle_generator.py) with   *)
(* its configuration (config.py), the update manager (update-manager/      *)
(* lambda_function.py) and the telemetry processor (telemetry-processor/   *)
(* lambda_function.py).                                                    *)
(*                                                                         *)
(* Strings are sequences of one-character strings, so that slicing and     *)
(* indexing are the operations of the source.  Real-valued quantities are  *)
(* fixed-point integers: battery in tenths of a percent, speed in km/h,    *)
(* coordinates in 1/DegScale of a degree.                                  *)
(***************************************************************************)
EXTENDS Integers, Sequences, FiniteSets, TLC

VARIABLES
    \* VINGenerator.generate: its argument, its random draws, its result
    manufacturer, vds, year_code, plant_code, serial, vin,
    \* VINGenerator.calculate_check_digit called on a 16-character string
    check_digit,
    \* GPSSimulator: self.latitude, self.longitude, self.speed_kmh
    latitude, longitude, speed_kmh,
    \* Vehicle: self.status, self.battery_percent, self.odometer_km,
    \* self.connectivity, self.signal_strength
    status, battery_percent, odometer_km, connectivity, signal_strength,
    \* number of simulator operations applied so far
    ticks,
    \* Vehicle: self.vehicle_id, self.vin, self.firmware_version,
    \* self.battery_health, and the caller's telemetry: the dict of the latest
    \* generate_telemetry whose result the caller kept
    self_vehicle_id, self_vin, self_firmware_version, battery_health,
    returned_telemetry,
    \* analyze_fleet: the objects behind its telemetry_files argument, its
    \* local dict vehicles, and the fleet_status it returns
    telemetry_files, vehicles, fleet_status,
    \* FleetSimulator: self.vehicles, self.telemetry_sent, self.upload_errors
    fleet, telemetry_sent, upload_errors,
    \* run_simulation: where control is, its local iteration, the index of
    \* the for loop, whether KeyboardInterrupt ended the loop, and what
    \* _print_summary did
    pc, iteration, cursor, interrupted, summary,
    \* the calls run_simulation has made on its vehicles and on upload_to_s3
    calls,
    \* run_simulation's argument interval_seconds
    interval_seconds,
    \* update manager lambda_handler: the objects under today's prefix of the
    \* bucket, whether list_objects_v2 and put_metric_data return or raise,
    \* and what the handler returns
    bucket, list_objects_ok, put_metric_data_ok, response,
    \* the MetricData publish_update_metrics hands to put_metric_data
    metric_data,
    \* telemetry processor lambda_handler: event['Records'], how far the
    \* handling of each record got, and what the handler returns
    records, progress, processor_response,
    \* config.py: the settings validate_config looks at (the sum of the
    \* values of FIRMWARE_DISTRIBUTION in hundredths), and how the import of
    \* the module ended
    S3_BUCKET, VEHICLE_COUNT, TELEMETRY_INTERVAL, FIRMWARE_DISTRIBUTION_sum,
    config_import

vinVars == <<manufacturer, vds, year_code, plant_code, serial, vin, check_digit>>

gpsVars == <<latitude, longitude, speed_kmh>>

vehicleVars == <<status, battery_percent, odometer_km, connectivity, signal_strength>>

\* what a vehicle is constructed with and keeps, and what it emits
identityVars == <<self_vehicle_id, self_vin, self_firmware_version, battery_health>>

snapshotVars == <<identityVars, returned_telemetry>>

analyzerVars == <<telemetry_files, vehicles, fleet_status>>

fleetVars == <<fleet, telemetry_sent, upload_errors, pc, iteration, cursor,
               interrupted, summary, calls, interval_seconds>>

\* the components added to the simulator and the update manager
managerVars == <<bucket, list_objects_ok, put_metric_data_ok, response, metric_data>>

processorVars == <<records, progress, processor_response>>

configVars == <<S3_BUCKET, VEHICLE_COUNT, TELEMETRY_INTERVAL, FIRMWARE_DISTRIBUTION_sum,
                config_import>>

restVars == <<snapshotVars, fleetVars, managerVars, processorVars, configVars>>

vars == <<vinVars, gpsVars, vehicleVars, snapshotVars, ticks, analyzerVars, restVars>>

Max(a, b) == IF a >= b THEN a ELSE b

Min(a, b) == IF a <= b THEN a ELSE b

(***************************************************************************)
(* VINGenerator                                                            *)
(***************************************************************************)

Digits == <<"0", "1", "2", "3", "4", "5", "6", "7", "8", "9">>

DigitSet == {Digits[i] : i \in 1..10}

\* 'ABCDEFGHJKLMNPRSTUVWXYZ0123456789', the alphabet of random.choices
VDS_ALPHABET == {"A", "B", "C", "D", "E", "F", "G", "H", "J", "K", "L", "M",
                 "N", "P", "R", "S", "T", "U", "V", "W", "X", "Y", "Z"}
                \cup DigitSet

\* 'LMNPRSTUVWXYZ'
YEAR_CODES == {"L", "M", "N", "P", "R", "S", "T", "U", "V", "W", "X", "Y", "Z"}

\* 'ABCDEFGHJKLMNPRSTUVWXYZ'
PLANT_CODES == VDS_ALPHABET \ DigitSet

WMI_CODES == [m \in {"TESLA", "FORD", "GM", "TOYOTA", "HONDA", "VOLKSWAGEN",
                     "BMW", "MERCEDES"} |->
    CASE m = "TESLA"      -> <<"5", "Y", "J">>
      [] m = "FORD"       -> <<"1", "F", "A">>
      [] m = "GM"         -> <<"1", "G", "1">>
      [] m = "TOYOTA"     -> <<"5", "T", "D">>
      [] m = "HONDA"      -> <<"1", "H", "G">>
      [] m = "VOLKSWAGEN" -> <<"W", "V", "W">>
      [] m = "BMW"        -> <<"W", "B", "A">>
      [] m = "MERCEDES"   -> <<"W", "D", "D">>]

VIN_WEIGHTS == <<8, 7, 6, 5, 4, 3, 2, 10, 0, 9, 8, 7, 6, 5, 4, 3, 2>>

VIN_TRANSLITERATION == [c \in PLANT_CODES |->
    CASE c \in {"A", "J"}      -> 1
      [] c \in {"B", "K", "S"} -> 2
      [] c \in {"C", "L", "T"} -> 3
      [] c \in {"D", "M", "U"} -> 4
      [] c \in {"E", "N", "V"} -> 5
      [] c \in {"F", "W"}      -> 6
      [] c \in {"G", "P", "X"} -> 7
      [] c \in {"H", "Y"}      -> 8
      [] c \in {"R", "Z"}      -> 9]

\* int(char) for a decimal digit
IntOfDigit(char) == (CHOOSE i \in 1..10 : Digits[i] = char) - 1

\* the value the loop body gives one character: lines 98-101
CharValue(char) ==
    IF char \in DigitSet THEN IntOfDigit(char)
    ELSE IF char \in DOMAIN VIN_TRANSLITERATION THEN VIN_TRANSLITERATION[char]
    ELSE 0

\* enumerate(...) indexes from 0 and VIN_WEIGHTS[i] is read at that index:
\* the character at 1-based place k is weighted by VIN_WEIGHTS[k]
RECURSIVE WeightedTotal(_, _)
WeightedTotal(s, k) ==
    IF k = 0 THEN 0
    ELSE WeightedTotal(s, k - 1) + CharValue(s[k]) * VIN_WEIGHTS[k]

calculate_check_digit(vin_without_check) ==
    LET total == WeightedTotal(vin_without_check, Len(vin_without_check))
        cd    == total % 11
    IN  IF cd = 10 THEN "X" ELSE Digits[cd + 1]

\* Python slices s[:n] and s[n:]
Prefix(s, n) == SubSeq(s, 1, Min(n, Len(s)))

Suffix(s, n) == SubSeq(s, n + 1, Len(s))

\* the 16 characters assembled on line 124
VinWithoutCheck(m, v, y, p, s) ==
    (IF m \in DOMAIN WMI_CODES THEN WMI_CODES[m] ELSE <<"5", "Y", "J">>)
        \o v \o <<y>> \o <<p>> \o s

\* generate that overwrites the ninth character instead of inserting before it
generate_overwrite(m, v, y, p, s) ==
    LET vin_without_check == VinWithoutCheck(m, v, y, p, s)
        cd == calculate_check_digit(Prefix(vin_without_check, 8)
                                    \o Suffix(vin_without_check, 9))
    IN  Prefix(vin_without_check, 8) \o <<cd>> \o Suffix(vin_without_check, 9)

\* generate with its random draws made explicit
generate(m, v, y, p, s) ==
    LET vin_without_check == VinWithoutCheck(m, v, y, p, s)
        cd == calculate_check_digit(Prefix(vin_without_check, 8)
                                    \o Suffix(vin_without_check, 9))
    IN  Prefix(vin_without_check, 8) \o <<cd>> \o Suffix(vin_without_check, 8)

\* the draws the model explores: every manufacturer of the table and one
\* outside it, descriptor sections and serials of two repeated characters
Manufacturers == DOMAIN WMI_CODES \cup {"ACME"}

VdsDraws == {<<a, a, a, a, b>> : a \in {"A", "0"}, b \in VDS_ALPHABET}

SerialDraws == {<<d, e, e, e, e, d>> : d \in {"0", "9"}, e \in {"0", "7"}}

PlantDraws == {"A", "H", "P", "Z"}

NoVin == <<>>

\* fleet_status before analyze_fleet has returned
NoReport == <<>>

\* the update manager at rest, for the specifications of other components
AnalyzerIdle ==
    /\ telemetry_files = <<>>
    /\ vehicles = <<>>
    /\ fleet_status = NoReport

NoDigit == ""

\* no FleetSimulator has been constructed
FleetIdle ==
    /\ fleet = <<>>
    /\ telemetry_sent = 0
    /\ upload_errors = 0
    /\ pc = "idle"
    /\ iteration = 0
    /\ cursor = 0
    /\ interrupted = FALSE
    /\ summary = "none"
    /\ calls = <<>>
    /\ interval_seconds = 60

\* what lambda_handler has returned before it returns
NoResponse == <<>>

\* metric_data before publish_update_metrics has built it
NoMetrics == <<>>

\* the update manager's handler has not been invoked
ManagerIdle ==
    /\ bucket = <<>>
    /\ list_objects_ok = TRUE
    /\ put_metric_data_ok = TRUE
    /\ response = NoResponse
    /\ metric_data = NoMetrics

\* the telemetry processor's handler has not been invoked
ProcessorIdle ==
    /\ records = <<>>
    /\ progress = <<>>
    /\ processor_response = NoResponse

\* config.py as it is in the repository with a bucket name supplied, not
\* imported
ConfigIdle ==
    /\ S3_BUCKET = "fleetota-telemetry-0001"
    /\ VEHICLE_COUNT = 100
    /\ TELEMETRY_INTERVAL = 60
    /\ FIRMWARE_DISTRIBUTION_sum = 100
    /\ config_import = "not imported"

\* the other components at rest
RestIdle == FleetIdle /\ ManagerIdle /\ ProcessorIdle /\ ConfigIdle

\* the identifier generator at rest, for the specifications of other components
VinIdle ==
    /\ manufacturer = "TESLA"
    /\ vds = <<"A", "A", "A", "A", "A">>
    /\ year_code = "L"
    /\ plant_code = "A"
    /\ serial = <<"0", "0", "0", "0", "0", "0">>
    /\ vin = NoVin
    /\ check_digit = NoDigit

\* VINGenerator.generate(manufacturer)
Generate ==
    /\ vin = NoVin
    /\ vin' = generate(manufacturer, vds, year_code, plant_code, serial)
    /\ UNCHANGED <<manufacturer, vds, year_code, plant_code, serial, check_digit>>
    /\ UNCHANGED <<gpsVars, vehicleVars, ticks, analyzerVars, restVars>>

\* VINGenerator.calculate_check_digit on the 16 characters of a VIN without
\* its check-digit position
CalculateCheckDigit ==
    /\ check_digit = NoDigit
    /\ check_digit' = calculate_check_digit(
           VinWithoutCheck(manufacturer, vds, year_code, plant_code, serial))
    /\ UNCHANGED <<manufacturer, vds, year_code, plant_code, serial, vin>>
    /\ UNCHANGED <<gpsVars, vehicleVars, ticks, analyzerVars, restVars>>

(***************************************************************************)
(* GPSSimulator                                                            *)
(***************************************************************************)

\* coordinate units per degree: one minute at 1 km/h with multiplier 1 moves
\* 1/3600*60/111*0.1 degrees = 1/DegScale degrees
DegScale == 66600

\* number of update_position calls explored on a bare GPSSimulator: six
\* changes of 5 km/h take an initial speed of 30 or 90 to a speed limit and
\* the seventh would cross it
MaxGpsCalls == 7

\* number of operations explored on a vehicle
MaxTicks == 3

\* uniform(-5, 5), in km/h: its extremes
SpeedChanges == {-5, 5}

\* uniform(-1, 1): its extremes
AxisDraws == {-1, 1}

\* uniform(30, 90), in km/h: its extremes
InitialSpeeds == {30, 90}

\* initial_lat, initial_lon in degrees: the two far corners and the origin
GpsStarts == {<<90, 180>>, <<-90, -180>>, <<0, 0>>}

\* elapsed seconds handed to update_position: none and the default minute
GpsElapsed == {0, 60}

\* update_position without the upper speed limit
update_position_unclamped(lat, lon, speed, time_elapsed_seconds, speed_change, ulat, ulon) ==
    LET new_speed == Max(0, speed + speed_change)
        step == (new_speed * time_elapsed_seconds) \div 60
        lat1 == lat + step * ulat
        lon1 == lon + step * ulon
    IN  [latitude  |-> Max(-85 * DegScale, Min(85 * DegScale, lat1)),
         longitude |-> Max(-180 * DegScale, Min(180 * DegScale, lon1)),
         speed_kmh |-> new_speed]

\* lines 170-188: the new (latitude, longitude, speed_kmh)
update_position(lat, lon, speed, time_elapsed_seconds, speed_change, ulat, ulon) ==
    LET new_speed == Max(0, Min(120, speed + speed_change))
        \* distance_deg * 0.1 in coordinate units
        step == (new_speed * time_elapsed_seconds) \div 60
        lat1 == lat + step * ulat
        lon1 == lon + step * ulon
    IN  [latitude  |-> Max(-85 * DegScale, Min(85 * DegScale, lat1)),
         longitude |-> Max(-180 * DegScale, Min(180 * DegScale, lon1)),
         speed_kmh |-> new_speed]

(***************************************************************************)
(* Vehicle                                                                 *)
(***************************************************************************)

ONLINE == "online"

OFFLINE == "offline"

UPDATING == "updating"

ERROR == "error"

VehicleStatus == {ONLINE, OFFLINE, UPDATING, ERROR}

ConnectivityType == {"4G_LTE", "5G", "WiFi", "Satellite"}

\* battery units per percent
BatteryScale == 10

\* odometer units per km: a tick adds speed_kmh / 60 km
OdoScale == 60

\* uniform(0.1, 0.5) percent per minute, in battery units
DrainRates == {1, 5}

\* line 250-251: random.random() < 0.1 and, when it holds, uniform(10, 30)
\* percent in battery units
ChargeDraws == {<<FALSE, 0>>, <<TRUE, 10 * BatteryScale>>, <<TRUE, 30 * BatteryScale>>}

\* random.choice(list(ConnectivityType)) with randint(-90, -40) dBm
ConnectivityDraws == {<<"4G_LTE", -90>>, <<"Satellite", -40>>}

\* line 270: random.random() < 0.05 and, when it holds, the new connectivity
\* (the pair is not read when the roll fails)
ReconnectDraws == {<<FALSE, <<"4G_LTE", -90>>>>}
                  \cup {<<TRUE, c>> : c \in ConnectivityDraws}

\* lines 275-277: random.random() < 0.02, and random.random() < 0.3 which
\* the elif draws only when the first failed
StatusRolls == {<<TRUE, FALSE>>, <<FALSE, TRUE>>, <<FALSE, FALSE>>}

\* the two multipliers a vehicle's tick draws for latitude and longitude
AxisPairs == {<<1, -1>>, <<-1, 1>>}

\* uniform(20, 100) percent, in battery units
InitialBattery == {20 * BatteryScale, 30 * BatteryScale, 100 * BatteryScale}

\* elapsed seconds handed to simulate_battery_drain: none, the default
\* minute, and half an hour
DrainElapsed == {0, 60, 1800}

\* simulate_battery_drain with a floor of 0 instead of 5
simulate_battery_drain_floor0(st, battery, time_elapsed_seconds, rate, charging, charge) ==
    IF st = ONLINE
    THEN LET drain_rate == (rate * time_elapsed_seconds) \div 60
             drained == Max(0, battery - drain_rate)
         IN  IF drained < 30 * BatteryScale /\ charging
             THEN Min(100 * BatteryScale, drained + charge)
             ELSE drained
    ELSE battery

\* lines 244-251 without the test of the status: the battery drains at
\* the lowest rate or faster whatever the status is
simulate_battery_drain_any_status(st, battery, time_elapsed_seconds, rate, charging, charge) ==
    LET drain_rate == (Max(rate, 1) * time_elapsed_seconds) \div 60
        drained == Max(5 * BatteryScale, battery - drain_rate)
    IN  IF drained < 30 * BatteryScale /\ charging
        THEN Min(100 * BatteryScale, drained + charge)
        ELSE drained

\* lines 244-251 with a charge that fills the battery
simulate_battery_drain_full_charge(st, battery, time_elapsed_seconds, rate, charging, charge) ==
    IF st = ONLINE
    THEN LET drain_rate == (rate * time_elapsed_seconds) \div 60
             drained == Max(5 * BatteryScale, battery - drain_rate)
         IN  IF drained < 30 * BatteryScale /\ charging
             THEN 100 * BatteryScale
             ELSE drained
    ELSE battery

\* lines 244-251: the new battery_percent
simulate_battery_drain(st, battery, time_elapsed_seconds, rate, charging, charge) ==
    IF st = ONLINE
    THEN LET drain_rate == (rate * time_elapsed_seconds) \div 60
             drained == Max(5 * BatteryScale, battery - drain_rate)
         IN  IF drained < 30 * BatteryScale /\ charging
             THEN Min(100 * BatteryScale, drained + charge)
             ELSE drained
    ELSE battery

\* the drain rate is drawn only for an ONLINE vehicle (line 244)
RatesFor(st) == IF st = ONLINE THEN DrainRates ELSE {0}

\* the charge is drawn only when the drained battery is below 30: the "and"
\* of line 250 does not evaluate random.random() otherwise
ChargeDrawsFor(st, battery, time_elapsed_seconds, rate) ==
    IF /\ st = ONLINE
       /\ Max(5 * BatteryScale, battery - (rate * time_elapsed_seconds) \div 60)
            < 30 * BatteryScale
    THEN ChargeDraws
    ELSE {<<FALSE, 0>>}

\* the second roll of line 277 is drawn only for an OFFLINE vehicle
RollsFor(st) ==
    IF st = OFFLINE THEN StatusRolls ELSE {<<TRUE, FALSE>>, <<FALSE, FALSE>>}

\* lines 275-278 with the first roll leading to ERROR
next_status_error(st, go_offline, go_online) ==
    IF go_offline THEN ERROR
    ELSE IF st = OFFLINE /\ go_online THEN ONLINE
    ELSE st

\* lines 275-278: the new status
next_status(st, go_offline, go_online) ==
    IF go_offline THEN OFFLINE
    ELSE IF st = OFFLINE /\ go_online THEN ONLINE
    ELSE st

\* Vehicle.FIRMWARE_VERSIONS (line 207)
FIRMWARE_VERSIONS == <<"1.2.0", "1.2.1", "1.3.0", "1.3.1", "1.4.0", "2.0.0">>

\* random.choice(self.FIRMWARE_VERSIONS[:4]) of line 227
InitialFirmware == {FIRMWARE_VERSIONS[i] : i \in 1..4}

\* a construction by Vehicle.__init__ that draws the i-th firmware: the
\* vehicle_id it is given, the VIN of VINGenerator.generate(), and its draws
\* of health (uniform(85, 100) percent), battery and connectivity
Construction(i) ==
    [vehicle_id |-> (IF i % 2 = 1 THEN 1 ELSE 42),
     vin |-> generate("TESLA", <<"A", "A", "A", "A", Digits[i]>>, "L", "A",
                      <<"0", "0", "0", "0", "0", Digits[i]>>),
     firmware_version |-> FIRMWARE_VERSIONS[i],
     battery_health |-> (IF i <= 2 THEN 85 ELSE 100),
     battery_percent |-> (IF i = 2 THEN 30 ELSE IF i = 3 THEN 100 ELSE 20)
                         * BatteryScale,
     connectivity |-> (IF i % 2 = 1 THEN <<"4G_LTE", -90>> ELSE <<"Satellite", -40>>)]

\* constructions drawing the firmware from the whole of FIRMWARE_VERSIONS
FreshIdentities_any_version == {Construction(i) : i \in 1..Len(FIRMWARE_VERSIONS)}

\* one construction for each firmware line 227 can draw
FreshIdentities == {Construction(i) : i \in 1..4}

\* returned_telemetry while the caller holds no dict
NoTelemetry == <<>>

\* datetime.now().isoformat() at the n-th reading of the clock: later
\* readings give greater strings
Timestamp(n) == <<Digits[(n \div 10) + 1], Digits[(n % 10) + 1]>>

\* _generate_warnings with elif in place of the second and third if
generate_warnings_elif(battery, signal, health) ==
    IF battery < 15 * BatteryScale THEN <<"LOW_BATTERY">>
    ELSE IF signal < -80 THEN <<"WEAK_SIGNAL">>
    ELSE IF health < 70 THEN <<"BATTERY_HEALTH_DEGRADED">>
    ELSE <<>>

\* _generate_warnings (lines 334-343) on self.battery_percent,
\* self.signal_strength and self.battery_health
generate_warnings(battery, signal, health) ==
    (IF battery < 15 * BatteryScale THEN <<"LOW_BATTERY">> ELSE <<>>)
    \o (IF signal < -80 THEN <<"WEAK_SIGNAL">> ELSE <<>>)
    \o (IF health < 70 THEN <<"BATTERY_HEALTH_DEGRADED">> ELSE <<>>)

\* the dict of lines 281-330 carrying the number of the emission as vehicle_id
telemetry_dict_numbered(id, v, now, st, battery, health, conn, signal, firmware) ==
    [vehicle_id |-> now,
     vin |-> v,
     timestamp |-> Timestamp(now),
     battery |-> [percent |-> battery, health |-> health],
     connectivity |-> [type |-> conn, signal_strength_dbm |-> signal,
                       connected |-> st # OFFLINE],
     status |-> st,
     firmware |-> [current_version |-> firmware],
     diagnostics |-> [error_codes |-> <<>>,
                      warnings |-> generate_warnings(battery, signal, health)]]

\* the dict of lines 281-330, built from the fields of the vehicle after the
\* updates of lines 260-278; round(self.battery_percent, 2) changes no
\* value of the tenths the model keeps the battery in.  The keys whose
\* values are drawn afresh or derived from the position and the odometer
\* (model, year, gps, voltage, temperature, data_usage_mb, odometer_km, the
\* update flags, health_score) are left out.
telemetry_dict(id, v, now, st, battery, health, conn, signal, firmware) ==
    [vehicle_id |-> id,
     vin |-> v,
     timestamp |-> Timestamp(now),
     battery |-> [percent |-> battery, health |-> health],
     connectivity |-> [type |-> conn, signal_strength_dbm |-> signal,
                       connected |-> st # OFFLINE],
     status |-> st,
     firmware |-> [current_version |-> firmware],
     diagnostics |-> [error_codes |-> <<>>,
                      warnings |-> generate_warnings(battery, signal, health)]]

\* odometer_km after a tick that took the speed for distance lost
advance_odometer_back(odometer, speed) == odometer - speed

\* lines 266-267: self.odometer_km += distance_km with distance_km the
\* speed after update_position over 60 minutes of an hour
advance_odometer(odometer, speed) == odometer + speed

\* a vehicle constructed as number 1 that has emitted nothing, for the
\* specifications that do not look at what a vehicle emits
SnapshotIdle ==
    /\ \E f \in FreshIdentities :
         /\ f.vehicle_id = 1
         /\ f.firmware_version = FIRMWARE_VERSIONS[1]
         /\ self_vehicle_id = f.vehicle_id
         /\ self_vin = f.vin
         /\ self_firmware_version = f.firmware_version
         /\ battery_health = f.battery_health
    /\ returned_telemetry = NoTelemetry

\* the vehicle and its movement model at rest
VehicleIdle ==
    /\ SnapshotIdle
    /\ latitude = 0
    /\ longitude = 0
    /\ speed_kmh = 60
    /\ status = ONLINE
    /\ battery_percent = 100 * BatteryScale
    /\ odometer_km = 1000 * OdoScale
    /\ connectivity = "4G_LTE"
    /\ signal_strength = -40
    /\ ticks = 0

\* the arguments and draws of VINGenerator.generate, before it runs
InitVin ==
    /\ manufacturer \in Manufacturers
    /\ vds \in VdsDraws
    /\ year_code \in YEAR_CODES
    /\ plant_code \in PlantDraws
    /\ serial \in SerialDraws
    /\ vin = NoVin
    /\ check_digit = NoDigit
    /\ VehicleIdle
    /\ AnalyzerIdle
    /\ RestIdle

\* GPSSimulator.__init__ at a valid coordinate
InitGps ==
    /\ VinIdle
    /\ SnapshotIdle
    /\ AnalyzerIdle
    /\ RestIdle
    /\ \E start \in GpsStarts :
         /\ latitude = start[1] * DegScale
         /\ longitude = start[2] * DegScale
    /\ speed_kmh \in InitialSpeeds
    /\ status = ONLINE
    /\ battery_percent = 100 * BatteryScale
    /\ odometer_km = 1000 * OdoScale
    /\ connectivity = "4G_LTE"
    /\ signal_strength = -40
    /\ ticks = 0

\* GPSSimulator.update_position(time_elapsed_seconds)
UpdatePosition ==
    /\ ticks < MaxGpsCalls
    /\ \E t \in GpsElapsed, dv \in SpeedChanges, ulat \in AxisDraws, ulon \in AxisDraws :
         LET g == update_position(latitude, longitude, speed_kmh, t, dv, ulat, ulon)
         IN  /\ latitude' = g.latitude
             /\ longitude' = g.longitude
             /\ speed_kmh' = g.speed_kmh
    /\ ticks' = ticks + 1
    /\ UNCHANGED <<vinVars, vehicleVars, analyzerVars, restVars>>

\* Vehicle.__init__: a city with its offset, the draws of the constructor
InitVehicle ==
    /\ VinIdle
    /\ SnapshotIdle
    /\ AnalyzerIdle
    /\ RestIdle
    /\ latitude = 38 * DegScale
    /\ longitude = -122 * DegScale
    /\ speed_kmh \in InitialSpeeds
    /\ status = ONLINE
    /\ battery_percent \in InitialBattery
    /\ odometer_km = 1000 * OdoScale
    /\ \E c \in ConnectivityDraws :
         /\ connectivity = c[1]
         /\ signal_strength = c[2]
    /\ ticks = 0

\* Vehicle.__init__ of a slow vehicle, with every firmware it can draw
InitTelemetry ==
    /\ VinIdle
    /\ AnalyzerIdle
    /\ FleetIdle
    /\ ManagerIdle
    /\ ProcessorIdle
    /\ ConfigIdle
    /\ \E f \in FreshIdentities :
         /\ self_vehicle_id = f.vehicle_id
         /\ self_vin = f.vin
         /\ self_firmware_version = f.firmware_version
         /\ battery_health = f.battery_health
         /\ battery_percent = f.battery_percent
         /\ connectivity = f.connectivity[1]
         /\ signal_strength = f.connectivity[2]
    /\ returned_telemetry = NoTelemetry
    /\ latitude = 38 * DegScale
    /\ longitude = -122 * DegScale
    /\ speed_kmh = 30
    /\ status = ONLINE
    /\ odometer_km = 1000 * OdoScale
    /\ ticks = 0

\* the first of these constructions: a battery of 20 percent, a weak signal
InitWarnings ==
    /\ InitTelemetry
    /\ self_firmware_version = FIRMWARE_VERSIONS[1]

\* the body of Vehicle.generate_telemetry() up to its return
generate_telemetry_body ==
    /\ ticks < MaxTicks
    /\ \E dv \in SpeedChanges, axis \in AxisPairs, rate \in RatesFor(status),
          reconnect \in ReconnectDraws, roll \in RollsFor(status) :
       \E charge \in ChargeDrawsFor(status, battery_percent, 60, rate) :
         LET g == update_position(latitude, longitude, speed_kmh, 60, dv,
                                  axis[1], axis[2])
         IN  /\ latitude' = g.latitude
             /\ longitude' = g.longitude
             /\ speed_kmh' = g.speed_kmh
             /\ battery_percent' =
                    simulate_battery_drain(status, battery_percent, 60, rate,
                                           charge[1], charge[2])
             /\ odometer_km' = advance_odometer(odometer_km, g.speed_kmh)
             /\ connectivity' = IF reconnect[1] THEN reconnect[2][1] ELSE connectivity
             /\ signal_strength' = IF reconnect[1] THEN reconnect[2][2]
                                   ELSE signal_strength
             /\ status' = next_status(status, roll[1], roll[2])
    /\ ticks' = ticks + 1
    /\ UNCHANGED <<vinVars, identityVars, analyzerVars, fleetVars, managerVars,
                   processorVars, configVars>>

\* vehicle.generate_telemetry(), in the specifications that do not look at
\* the dict it returns
GenerateTelemetry ==
    /\ generate_telemetry_body
    /\ UNCHANGED returned_telemetry

\* telemetry = vehicle.generate_telemetry() (line 447; tests, line 216),
\* the dict it returns recorded
KeepTelemetry ==
    /\ generate_telemetry_body
    /\ returned_telemetry' =
           telemetry_dict(self_vehicle_id, self_vin, ticks', status', battery_percent',
                          battery_health, connectivity', signal_strength',
                          self_firmware_version)

\* Vehicle.simulate_battery_drain(time_elapsed_seconds), called directly
SimulateBatteryDrain ==
    /\ ticks < MaxTicks
    /\ \E t \in DrainElapsed, rate \in RatesFor(status) :
       \E charge \in ChargeDrawsFor(status, battery_percent, t, rate) :
         battery_percent' =
             simulate_battery_drain(status, battery_percent, t, rate,
                                    charge[1], charge[2])
    /\ ticks' = ticks + 1
    /\ UNCHANGED <<vinVars, gpsVars, status, odometer_km, connectivity, signal_strength,
                   analyzerVars, restVars>>

\* vehicle.status = ..., assigned from outside the vehicle
SetStatus ==
    /\ \E st \in VehicleStatus :
         /\ st # status
         /\ status' = st
    /\ UNCHANGED <<vinVars, gpsVars, battery_percent, odometer_km, connectivity,
                   signal_strength, ticks, analyzerVars, restVars>>

(***************************************************************************)
(* FleetSimulator                                                          *)
(***************************************************************************)

\* num_vehicles, the size of the fleet
FleetSize == 2

\* number of iterations of the while loop before the duration is over
MaxIterations == 2

\* the random draws one call of generate_telemetry makes on vehicle v
TickDraws(v) ==
    {d \in [dv : SpeedChanges, axis : AxisPairs, rate : RatesFor(v.status),
            charge : ChargeDraws, reconnect : ReconnectDraws,
            roll : RollsFor(v.status)] :
        d.charge \in ChargeDrawsFor(v.status, v.battery_percent, 60, d.rate)}

\* lines 253-278: the fields of vehicle v after one call of
\* generate_telemetry making the draws d
generate_telemetry(v, d) ==
    LET g == update_position(v.latitude, v.longitude, v.speed_kmh, 60, d.dv,
                             d.axis[1], d.axis[2])
    IN  [latitude |-> g.latitude,
         longitude |-> g.longitude,
         speed_kmh |-> g.speed_kmh,
         battery_percent |->
             simulate_battery_drain(v.status, v.battery_percent, 60, d.rate,
                                    d.charge[1], d.charge[2]),
         odometer_km |-> advance_odometer(v.odometer_km, g.speed_kmh),
         connectivity |-> IF d.reconnect[1] THEN d.reconnect[2][1]
                          ELSE v.connectivity,
         signal_strength |-> IF d.reconnect[1] THEN d.reconnect[2][2]
                             ELSE v.signal_strength,
         status |-> next_status(v.status, d.roll[1], d.roll[2])]

\* Vehicle.__init__ (lines 210-240): the vehicles a constructor can return
FreshVehicles ==
    {[latitude |-> 38 * DegScale, longitude |-> -122 * DegScale,
      speed_kmh |-> s, battery_percent |-> b,
      odometer_km |-> 1000 * OdoScale, connectivity |-> c[1],
      signal_strength |-> c[2], status |-> ONLINE] :
        s \in InitialSpeeds, b \in InitialBattery, c \in ConnectivityDraws}

\* line 378: [Vehicle(i) for i in range(1, num_vehicles + 1)]; a vehicle's
\* vehicle_id is its index
FreshFleets == [1..FleetSize -> FreshVehicles]

\* the fleets run_simulation is explored on: they differ in the batteries
SimulationFleets ==
    {f \in FreshFleets :
        \A i \in 1..FleetSize :
            /\ f[i].speed_kmh = 30
            /\ f[i].connectivity = "4G_LTE"
            /\ f[i].battery_percent # 20 * BatteryScale}

\* the draws run_simulation is explored with: those of the battery and of
\* the status, the movement and the connectivity taking one value each
SimulationDraws(v) ==
    {d \in TickDraws(v) :
        /\ d.dv = 5
        /\ d.axis = <<1, -1>>
        /\ ~d.reconnect[1]}

\* generate_telemetry on a class whose status is one attribute shared by
\* all the vehicles
TickFleet_shared(f, i, d) ==
    LET ticked == generate_telemetry(f[i], d)
    IN  [k \in DOMAIN f |->
            IF k = i THEN ticked ELSE [f[k] EXCEPT !.status = ticked.status]]

\* line 447: generate_telemetry called on the vehicle at index i of
\* self.vehicles, making the draws d; it assigns to attributes of self only
TickFleet(f, i, d) == [f EXCEPT ![i] = generate_telemetry(@, d)]

\* number of generate_telemetry calls made on the vehicles of a fleet
\* outside run_simulation
MaxFleetTicks == 2

\* a constructed fleet on which run_simulation is not running
InitFleetTicks ==
    /\ VinIdle
    /\ VehicleIdle
    /\ AnalyzerIdle
    /\ ManagerIdle
    /\ ProcessorIdle
    /\ ConfigIdle
    /\ fleet \in SimulationFleets
    /\ telemetry_sent = 0
    /\ upload_errors = 0
    /\ pc = "idle"
    /\ iteration = 0
    /\ cursor = 0
    /\ interrupted = FALSE
    /\ summary = "none"
    /\ calls = <<>>
    /\ interval_seconds = 60

\* simulator.vehicles[i].generate_telemetry(), for any vehicle of the fleet
TickAnyVehicle ==
    /\ pc = "idle"
    /\ Len(calls) < MaxFleetTicks
    /\ \E i \in 1..Len(fleet) :
         /\ \E d \in SimulationDraws(fleet[i]) : fleet' = TickFleet(fleet, i, d)
         /\ calls' = Append(calls, [op |-> "generate_telemetry", vehicle |-> i,
                                    iteration |-> iteration])
    /\ UNCHANGED <<telemetry_sent, upload_errors, pc, iteration, cursor, interrupted,
                   summary>>
    /\ UNCHANGED <<interval_seconds, vinVars, gpsVars, vehicleVars, snapshotVars, ticks,
                   analyzerVars, managerVars, processorVars, configVars>>

\* the interval_seconds run_simulation is called with: its default and twice it
IntervalSeconds == {60, 120}

\* FleetSimulator.__init__, of two vehicles or of none, followed by the entry
\* of run_simulation, up to the first test of the while loop
InitSimulation ==
    /\ VinIdle
    /\ VehicleIdle
    /\ AnalyzerIdle
    /\ ManagerIdle
    /\ ProcessorIdle
    /\ ConfigIdle
    /\ fleet \in SimulationFleets \cup {<<>>}
    /\ telemetry_sent = 0
    /\ upload_errors = 0
    /\ pc = "while"
    /\ iteration = 0
    /\ cursor = 0
    /\ interrupted = FALSE
    /\ summary = "none"
    /\ calls = <<>>
    /\ interval_seconds \in IntervalSeconds

\* lines 439-447: time.time() < end_time holds and an iteration begins
EnterIteration ==
    /\ pc = "while"
    /\ iteration < MaxIterations
    /\ iteration' = iteration + 1
    /\ cursor' = 1
    /\ pc' = IF Len(fleet) = 0 THEN "sleep" ELSE "for"
    /\ UNCHANGED <<fleet, telemetry_sent, upload_errors, interrupted, summary, calls>>
    /\ UNCHANGED <<interval_seconds, vinVars, gpsVars, vehicleVars, snapshotVars, ticks,
                   analyzerVars, managerVars, processorVars, configVars>>

\* line 439: time.time() < end_time fails; the finally clause is next
LeaveLoop ==
    /\ pc = "while"
    /\ pc' = "summary"
    /\ UNCHANGED <<fleet, telemetry_sent, upload_errors, iteration, cursor,
                   interrupted, summary, calls>>
    /\ UNCHANGED <<interval_seconds, vinVars, gpsVars, vehicleVars, snapshotVars, ticks,
                   analyzerVars, managerVars, processorVars, configVars>>

\* lines 446-447: telemetry = vehicle.generate_telemetry() for the vehicle
\* the for loop is at
TickVehicle ==
    /\ pc = "for"
    /\ \E d \in SimulationDraws(fleet[cursor]) :
         fleet' = TickFleet(fleet, cursor, d)
    /\ calls' = Append(calls, [op |-> "generate_telemetry", vehicle |-> cursor,
                               iteration |-> iteration])
    /\ pc' = "upload"
    /\ UNCHANGED <<telemetry_sent, upload_errors, iteration, cursor, interrupted, summary>>
    /\ UNCHANGED <<interval_seconds, vinVars, gpsVars, vehicleVars, snapshotVars, ticks,
                   analyzerVars, managerVars, processorVars, configVars>>

\* lines 449-452 with an upload_to_s3 that calls put_object a second time
\* when the first call raises
UploadToS3_retry ==
    /\ pc = "upload"
    /\ \E put_object_ok \in BOOLEAN :
         /\ telemetry_sent' = telemetry_sent + (IF put_object_ok THEN 1 ELSE 0)
         /\ upload_errors' = upload_errors + (IF put_object_ok THEN 0 ELSE 1)
         /\ calls' =
              LET call == [op |-> "upload_to_s3", vehicle |-> cursor,
                           iteration |-> iteration]
              IN  IF put_object_ok THEN Append(calls, call)
                  ELSE Append(Append(calls, call), call)
    /\ cursor' = cursor + 1
    /\ pc' = IF cursor = Len(fleet) THEN "sleep" ELSE "for"
    /\ UNCHANGED <<fleet, iteration, interrupted, summary>>
    /\ UNCHANGED <<interval_seconds, vinVars, gpsVars, vehicleVars, snapshotVars, ticks,
                   analyzerVars, managerVars, processorVars, configVars>>

\* lines 449-452 with upload_to_s3 (lines 384-417): one put_object, which
\* returns or raises, counted in telemetry_sent or in upload_errors; the for
\* loop then moves on, and after the last vehicle the sleep is next
UploadToS3 ==
    /\ pc = "upload"
    /\ \E put_object_ok \in BOOLEAN :
         /\ telemetry_sent' = telemetry_sent + (IF put_object_ok THEN 1 ELSE 0)
         /\ upload_errors' = upload_errors + (IF put_object_ok THEN 0 ELSE 1)
    /\ calls' = Append(calls, [op |-> "upload_to_s3", vehicle |-> cursor,
                               iteration |-> iteration])
    /\ cursor' = cursor + 1
    /\ pc' = IF cursor = Len(fleet) THEN "sleep" ELSE "for"
    /\ UNCHANGED <<fleet, iteration, interrupted, summary>>
    /\ UNCHANGED <<interval_seconds, vinVars, gpsVars, vehicleVars, snapshotVars, ticks,
                   analyzerVars, managerVars, processorVars, configVars>>

\* lines 463-474: the rest of the interval is slept through
Sleep ==
    /\ pc = "sleep"
    /\ pc' = "while"
    /\ UNCHANGED <<fleet, telemetry_sent, upload_errors, iteration, cursor,
                   interrupted, summary, calls>>
    /\ UNCHANGED <<interval_seconds, vinVars, gpsVars, vehicleVars, snapshotVars, ticks,
                   analyzerVars, managerVars, processorVars, configVars>>

\* lines 476-477: KeyboardInterrupt is raised at whatever statement of the
\* try block is running, and is caught outside the while loop
KeyboardInterrupt ==
    /\ pc \in {"while", "for", "upload", "sleep"}
    /\ interrupted' = TRUE
    /\ pc' = "summary"
    /\ UNCHANGED <<fleet, telemetry_sent, upload_errors, iteration, cursor,
                   summary, calls>>
    /\ UNCHANGED <<interval_seconds, vinVars, gpsVars, vehicleVars, snapshotVars, ticks,
                   analyzerVars, managerVars, processorVars, configVars>>

\* lines 485-518: the divisions of _print_summary, by the number of uploads
\* attempted and by the number of vehicles
print_summary(sent, errors, n) ==
    IF sent + errors = 0 \/ n = 0 THEN "ZeroDivisionError" ELSE "printed"

\* lines 482-483: finally: self._print_summary(start_time)
PrintSummary ==
    /\ pc = "summary"
    /\ summary' = print_summary(telemetry_sent, upload_errors, Len(fleet))
    /\ pc' = "done"
    /\ UNCHANGED <<fleet, telemetry_sent, upload_errors, iteration, cursor,
                   interrupted, calls>>
    /\ UNCHANGED <<interval_seconds, vinVars, gpsVars, vehicleVars, snapshotVars, ticks,
                   analyzerVars, managerVars, processorVars, configVars>>

(***************************************************************************)
(* Update manager: analyze_fleet                                           *)
(***************************************************************************)

LATEST_FIRMWARE_VERSION == "2.0.0"

MINIMUM_BATTERY_PERCENT == 50

\* what dict.get('vehicle_id') returns for a snapshot without the key
None == 0

\* dict.get(key, default): a snapshot is a function from its keys
Get(d, key, default) == IF key \in DOMAIN d THEN d[key] ELSE default

\* a > b for Python strings of decimal digits: the first differing character
\* decides, and a proper prefix is the smaller
RECURSIVE StrGreater(_, _)
StrGreater(a, b) ==
    IF a = <<>> THEN FALSE
    ELSE IF b = <<>> THEN TRUE
    ELSE IF Head(a) # Head(b) THEN IntOfDigit(Head(a)) > IntOfDigit(Head(b))
    ELSE StrGreater(Tail(a), Tail(b))

\* position of vehicle_id among the keys of the dict vehicles, 0 if not a key
KeyIndex(vs, vehicle_id) ==
    IF \E i \in 1..Len(vs) : vs[i].vehicle_id = vehicle_id
    THEN CHOOSE i \in 1..Len(vs) : vs[i].vehicle_id = vehicle_id
    ELSE 0

\* the loop of lines 167-182 keeping every snapshot it reads
RECURSIVE LatestPerVehicle_nodedup(_, _)
LatestPerVehicle_nodedup(files, k) ==
    IF k = 0 THEN <<>>
    ELSE LET vs == LatestPerVehicle_nodedup(files, k - 1)
             file == files[k]
         IN  IF ~file.ok THEN vs
             ELSE Append(vs, [vehicle_id |-> Get(file.body, "vehicle_id", None),
                              telemetry |-> file.body])

\* the loop of lines 167-182 keeping the last snapshot read for a vehicle
RECURSIVE LatestPerVehicle_lastwins(_, _)
LatestPerVehicle_lastwins(files, k) ==
    IF k = 0 THEN <<>>
    ELSE LET vs == LatestPerVehicle_lastwins(files, k - 1)
             file == files[k]
         IN  IF ~file.ok THEN vs
             ELSE LET vehicle_id == Get(file.body, "vehicle_id", None)
                      i == KeyIndex(vs, vehicle_id)
                  IN  IF i = 0
                      THEN Append(vs, [vehicle_id |-> vehicle_id,
                                       telemetry |-> file.body])
                      ELSE [vs EXCEPT ![i].telemetry = file.body]

\* the loop of lines 167-182 inside one try block: the first file whose
\* download raises ends the reading
RECURSIVE LatestPerVehicle_abort(_, _)
LatestPerVehicle_abort(files, k) ==
    IF k = 0 THEN <<>>
    ELSE IF \E j \in 1..k : ~files[j].ok
    THEN LatestPerVehicle_abort(
             files, (CHOOSE j \in 1..k :
                        ~files[j].ok /\ \A i \in 1..(j - 1) : files[i].ok) - 1)
    ELSE LET vs == LatestPerVehicle_abort(files, k - 1)
             telemetry == files[k].body
             vehicle_id == Get(telemetry, "vehicle_id", None)
             i == KeyIndex(vs, vehicle_id)
         IN  IF i = 0
             THEN Append(vs, [vehicle_id |-> vehicle_id, telemetry |-> telemetry])
             ELSE IF StrGreater(Get(telemetry, "timestamp", <<>>),
                                Get(vs[i].telemetry, "timestamp", <<>>))
                  THEN [vs EXCEPT ![i].telemetry = telemetry]
                  ELSE vs

\* the loop of lines 167-182 passing over a snapshot without vehicle_id
RECURSIVE LatestPerVehicle_identified(_, _)
LatestPerVehicle_identified(files, k) ==
    IF k = 0 THEN <<>>
    ELSE LET vs == LatestPerVehicle_identified(files, k - 1)
             file == files[k]
         IN  IF ~file.ok \/ "vehicle_id" \notin DOMAIN file.body THEN vs
             ELSE LET telemetry == file.body
                      vehicle_id == Get(telemetry, "vehicle_id", None)
                      i == KeyIndex(vs, vehicle_id)
                  IN  IF i = 0
                      THEN Append(vs, [vehicle_id |-> vehicle_id,
                                       telemetry |-> telemetry])
                      ELSE IF StrGreater(Get(telemetry, "timestamp", <<>>),
                                         Get(vs[i].telemetry, "timestamp", <<>>))
                           THEN [vs EXCEPT ![i].telemetry = telemetry]
                           ELSE vs

\* lines 167-182: the dict vehicles after the first k files, in insertion
\* order; a file whose download raises is skipped
RECURSIVE LatestPerVehicle(_, _)
LatestPerVehicle(files, k) ==
    IF k = 0 THEN <<>>
    ELSE LET vs == LatestPerVehicle(files, k - 1)
             file == files[k]
         IN  IF ~file.ok THEN vs
             ELSE LET telemetry == file.body
                      vehicle_id == Get(telemetry, "vehicle_id", None)
                      i == KeyIndex(vs, vehicle_id)
                  IN  IF i = 0
                      THEN Append(vs, [vehicle_id |-> vehicle_id,
                                       telemetry |-> telemetry])
                      ELSE IF StrGreater(Get(telemetry, "timestamp", <<>>),
                                         Get(vs[i].telemetry, "timestamp", <<>>))
                           THEN [vs EXCEPT ![i].telemetry = telemetry]
                           ELSE vs

\* the branches of lines 198-217 with the firmware test made first
Bucket_firmware_first(telemetry) ==
    LET firmware_version == Get(telemetry, "firmware", "unknown")
        battery == Get(telemetry, "battery", 0)
        st == Get(telemetry, "status", "unknown")
    IN  IF firmware_version = LATEST_FIRMWARE_VERSION THEN "up_to_date"
        ELSE IF st = "updating" THEN "updating"
        ELSE IF st = "offline" THEN "offline"
        ELSE IF battery < MINIMUM_BATTERY_PERCENT THEN "low_battery"
        ELSE "eligible"

\* the branches of lines 198-217 with <= in the battery test
Bucket_battery_le(telemetry) ==
    LET firmware_version == Get(telemetry, "firmware", "unknown")
        battery == Get(telemetry, "battery", 0)
        st == Get(telemetry, "status", "unknown")
    IN  IF st = "updating" THEN "updating"
        ELSE IF st = "offline" THEN "offline"
        ELSE IF firmware_version = LATEST_FIRMWARE_VERSION THEN "up_to_date"
        ELSE IF battery <= MINIMUM_BATTERY_PERCENT THEN "low_battery"
        ELSE "eligible"

\* lines 198-217: the branch taken for one vehicle's latest snapshot, named
\* by the key it appends to in vehicles_by_status
Bucket(telemetry) ==
    LET firmware_version == Get(telemetry, "firmware", "unknown")
        battery == Get(telemetry, "battery", 0)
        st == Get(telemetry, "status", "unknown")
    IN  IF st = "updating" THEN "updating"
        ELSE IF st = "offline" THEN "offline"
        ELSE IF firmware_version = LATEST_FIRMWARE_VERSION THEN "up_to_date"
        ELSE IF battery < MINIMUM_BATTERY_PERCENT THEN "low_battery"
        ELSE "eligible"

\* defaultdict(int)[key] += 1
Increment(d, key) ==
    IF key \in DOMAIN d THEN [d EXCEPT ![key] = @ + 1] ELSE d @@ (key :> 1)

\* defaultdict(list)[key].append(x)
AppendTo(d, key, x) ==
    IF key \in DOMAIN d THEN [d EXCEPT ![key] = Append(@, x)] ELSE d @@ (key :> <<x>>)

\* lines 152-161
EmptyFleetStatus ==
    [total_vehicles |-> 0, update_eligible |-> 0, update_in_progress |-> 0,
     up_to_date |-> 0, insufficient_battery |-> 0, offline |-> 0,
     firmware_distribution |-> <<>>, vehicles_by_status |-> <<>>]

\* lines 185-221: fleet_status after the first k entries of vehicles
RECURSIVE Classify(_, _)
Classify(vs, k) ==
    IF k = 0 THEN EmptyFleetStatus
    ELSE LET fs == Classify(vs, k - 1)
             b == Bucket(vs[k].telemetry)
             firmware_version == Get(vs[k].telemetry, "firmware", "unknown")
         IN  [total_vehicles |-> fs.total_vehicles + 1,
              update_in_progress |->
                  fs.update_in_progress + (IF b = "updating" THEN 1 ELSE 0),
              offline |-> fs.offline + (IF b = "offline" THEN 1 ELSE 0),
              up_to_date |-> fs.up_to_date + (IF b = "up_to_date" THEN 1 ELSE 0),
              insufficient_battery |->
                  fs.insufficient_battery + (IF b = "low_battery" THEN 1 ELSE 0),
              update_eligible |->
                  fs.update_eligible + (IF b = "eligible" THEN 1 ELSE 0),
              firmware_distribution |->
                  Increment(fs.firmware_distribution, firmware_version),
              vehicles_by_status |->
                  AppendTo(fs.vehicles_by_status, b, vs[k].vehicle_id)]

\* number of telemetry files in a batch
MaxFiles == 2

\* the snapshots the batches are made of
VehicleIds == {1, 2}

Timestamps == {<<"0", "9">>, <<"1", "0">>}

SnapshotStatuses == {"online", "offline", "updating"}

FirmwareVersions == {"1.3.0", LATEST_FIRMWARE_VERSION}

BatteryPercents == {MINIMUM_BATTERY_PERCENT - 1, MINIMUM_BATTERY_PERCENT}

Snapshots ==
    {[vehicle_id |-> id, timestamp |-> ts, status |-> st, firmware |-> fw,
      battery |-> bp] :
        id \in VehicleIds, ts \in Timestamps, st \in SnapshotStatuses,
        fw \in FirmwareVersions, bp \in BatteryPercents}

\* an object of the bucket: download_telemetry returns its body or raises
Files == {[ok |-> TRUE, body |-> t] : t \in Snapshots}
         \cup {[ok |-> FALSE, body |-> <<>>]}

Batches == UNION {[1..n -> Files] : n \in 0..MaxFiles}

InitAnalyzer ==
    /\ VinIdle
    /\ VehicleIdle
    /\ RestIdle
    /\ telemetry_files \in Batches
    /\ vehicles = <<>>
    /\ fleet_status = NoReport

\* a snapshot with all the fields analyze_fleet reads
FullSnapshot ==
    [vehicle_id |-> 1, timestamp |-> <<"1", "0">>, status |-> "online",
     firmware |-> "1.3.0", battery |-> MINIMUM_BATTERY_PERCENT]

\* the snapshots that lack any subset of these fields
SparseSnapshots ==
    {[key \in keys |-> FullSnapshot[key]] : keys \in SUBSET DOMAIN FullSnapshot}

SparseFiles == {[ok |-> TRUE, body |-> t] : t \in SparseSnapshots}
               \cup {[ok |-> FALSE, body |-> <<>>]}

SparseBatches == UNION {[1..n -> SparseFiles] : n \in 0..MaxFiles}

\* a batch of snapshots with fields missing, before analyze_fleet runs
InitSparse ==
    /\ VinIdle
    /\ VehicleIdle
    /\ RestIdle
    /\ telemetry_files \in SparseBatches
    /\ vehicles = <<>>
    /\ fleet_status = NoReport

\* analyze_fleet(bucket_name, telemetry_files)
AnalyzeFleet ==
    /\ fleet_status = NoReport
    /\ vehicles' = LatestPerVehicle(telemetry_files, Len(telemetry_files))
    /\ fleet_status' = Classify(vehicles', Len(vehicles'))
    /\ UNCHANGED <<vinVars, gpsVars, vehicleVars, ticks, telemetry_files, restVars>>

(***************************************************************************)
(* Update manager: lambda_handler                                          *)
(***************************************************************************)

\* the snapshots stored in the bucket the handler is run on
ManagerSnapshots ==
    {t \in Snapshots :
        /\ t.timestamp = <<"1", "0">>
        /\ t.status \in {"online", "updating"}
        /\ t.firmware = "1.3.0"
        /\ t.battery = MINIMUM_BATTERY_PERCENT}

\* an object of the bucket: its LastModified is within the last hour or
\* not, and get_object on it returns a snapshot or raises
ManagerObjects ==
    {[recent |-> r, file |-> f] :
        r \in BOOLEAN,
        f \in {[ok |-> TRUE, body |-> t] : t \in ManagerSnapshots}
              \cup {[ok |-> FALSE, body |-> <<>>]}}

Buckets == UNION {[1..n -> ManagerObjects] : n \in 0..MaxFiles}

\* the files of the objects of bkt that line 127 keeps
RECURSIVE RecentFiles(_, _)
RecentFiles(bkt, k) ==
    IF k = 0 THEN <<>>
    ELSE IF bkt[k].recent
         THEN Append(RecentFiles(bkt, k - 1), bkt[k].file)
         ELSE RecentFiles(bkt, k - 1)

\* lines 106-137: a listing without Contents gives [], and so does a
\* list_objects_v2 call that raises
get_recent_telemetry(bkt, list_ok) ==
    IF ~list_ok THEN <<>>
    ELSE IF Len(bkt) = 0 THEN <<>>
    ELSE RecentFiles(bkt, Len(bkt))

\* lines 47-79: the locals and the return value of lambda_handler;
\* the eligibility rate is kept in hundredths of a percent
RateScale == 100

\* the rate with the number of vehicles plus one as its denominator
eligibility_rate_plus_one(fs) ==
    (fs.update_eligible * 100 * RateScale) \div (fs.total_vehicles + 1)

\* lines 308-315: (update_eligible / max(total_vehicles, 1)) * 100
eligibility_rate(fs) ==
    (fs.update_eligible * 100 * RateScale) \div Max(fs.total_vehicles, 1)

\* publish_update_metrics: the values of the MetricData it builds, the
\* firmware metrics as one function from version to count
publish_update_metrics(fs) ==
    [TotalVehicles |-> fs.total_vehicles,
     UpdateEligible |-> fs.update_eligible,
     UpdateInProgress |-> fs.update_in_progress,
     VehiclesUpToDate |-> fs.up_to_date,
     VehiclesOffline |-> fs.offline,
     LowBatteryVehicles |-> fs.insufficient_battery,
     UpdateEligibilityRate |-> eligibility_rate(fs),
     VehiclesByFirmware |-> fs.firmware_distribution]

\* publish_update_metrics (lines 331-341) raises again what put_metric_data
\* raised, and the handler answers that with the message alone
lambda_handler(bkt, list_ok, put_ok) ==
    LET files == get_recent_telemetry(bkt, list_ok)
        vs == LatestPerVehicle(files, Len(files))
        fs == Classify(vs, Len(vs))
    IN  [telemetry_files |-> files,
         vehicles |-> vs,
         fleet_status |-> fs,
         metric_data |-> publish_update_metrics(fs),
         response |->
             IF put_ok
             THEN [statusCode |-> 200,
                   body |-> [message |-> "Update analysis complete",
                             total_vehicles |-> fs.total_vehicles,
                             update_eligible |-> fs.update_eligible,
                             update_in_progress |-> fs.update_in_progress,
                             latest_version |-> LATEST_FIRMWARE_VERSION]]
             ELSE [statusCode |-> 500,
                   body |-> [error |-> "Error: put_metric_data"]]]

\* the bucket and the behaviour of the two services, before an invocation
InitManager ==
    /\ VinIdle
    /\ VehicleIdle
    /\ AnalyzerIdle
    /\ FleetIdle
    /\ ProcessorIdle
    /\ ConfigIdle
    /\ bucket \in Buckets
    /\ list_objects_ok \in BOOLEAN
    /\ put_metric_data_ok \in BOOLEAN
    /\ response = NoResponse
    /\ metric_data = NoMetrics

\* lambda_handler(event, context)
LambdaHandler ==
    /\ response = NoResponse
    /\ LET r == lambda_handler(bucket, list_objects_ok, put_metric_data_ok)
       IN  /\ telemetry_files' = r.telemetry_files
           /\ vehicles' = r.vehicles
           /\ fleet_status' = r.fleet_status
           /\ response' = r.response
           /\ metric_data' = r.metric_data
    /\ UNCHANGED <<vinVars, gpsVars, vehicleVars, snapshotVars, ticks, fleetVars,
                   processorVars, configVars>>
    /\ UNCHANGED <<bucket, list_objects_ok, put_metric_data_ok>>

(***************************************************************************)
(* Telemetry processor: lambda_handler                                     *)
(***************************************************************************)

\* number of records in an event
MaxRecords == 3

\* the call that raises while a record is handled, if any
Failures == {"none", "download_telemetry", "process_telemetry", "publish_metrics"}

Events == UNION {[1..n -> [fails : Failures]] : n \in 0..MaxRecords}

\* lines 49-55: how far the body of the for loop gets on one record
StageReached(record) ==
    CASE record.fails = "download_telemetry" -> "started"
      [] record.fails = "process_telemetry" -> "downloaded"
      [] record.fails = "publish_metrics" -> "processed"
      [] OTHER -> "published"

\* lines 40-69: the for loop over the first k records inside the one try
\* block; an exception leaves the loop, and the records after it are not
\* looked at
RECURSIVE HandleRecords(_, _)
HandleRecords(rs, k) ==
    IF k = 0 THEN [progress |-> <<>>, raised |-> FALSE]
    ELSE LET before == HandleRecords(rs, k - 1)
         IN  IF before.raised
             THEN [progress |-> Append(before.progress, "untouched"),
                   raised |-> TRUE]
             ELSE [progress |-> Append(before.progress, StageReached(rs[k])),
                   raised |-> rs[k].fails # "none"]

\* an S3 event, before the handler is invoked on it
InitProcessor ==
    /\ VinIdle
    /\ VehicleIdle
    /\ AnalyzerIdle
    /\ FleetIdle
    /\ ManagerIdle
    /\ ConfigIdle
    /\ records \in Events
    /\ progress = <<>>
    /\ processor_response = NoResponse

\* telemetry processor lambda_handler(event, context)
ProcessorHandler ==
    /\ processor_response = NoResponse
    /\ LET h == HandleRecords(records, Len(records))
       IN  /\ progress' = h.progress
           /\ processor_response' =
                IF h.raised
                THEN [statusCode |-> 500, body |-> "Error"]
                ELSE [statusCode |-> 200, body |-> "Telemetry processed successfully"]
    /\ UNCHANGED <<vinVars, gpsVars, vehicleVars, snapshotVars, ticks, analyzerVars,
                   fleetVars, managerVars, configVars, records>>

(***************************************************************************)
(* config.py                                                               *)
(***************************************************************************)

\* line 18: the default of S3_BUCKET
DEFAULT_S3_BUCKET == "fleetota-telemetry-YOUR_UNIQUE_ID"

\* the settings a configuration is made of: each limit, its two neighbours,
\* and for the distribution a sum of 0.9, 1.0 or 1.1
BucketNames == {DEFAULT_S3_BUCKET, "fleetota-telemetry-0001"}

VehicleCounts == {0, 1, 10000, 10001}

TelemetryIntervals == {9, 10, 3600, 3601}

DistributionSums == {90, 100, 110}

\* lines 193-212: the list errors of validate_config
validate_config(bucket_name, vehicle_count, telemetry_interval, distribution_sum) ==
    (IF bucket_name = DEFAULT_S3_BUCKET
     THEN <<"S3_BUCKET must be changed from default value">> ELSE <<>>)
    \o (IF ~(1 <= vehicle_count /\ vehicle_count <= 10000)
        THEN <<"VEHICLE_COUNT must be between 1 and 10000">> ELSE <<>>)
    \o (IF ~(10 <= telemetry_interval /\ telemetry_interval <= 3600)
        THEN <<"TELEMETRY_INTERVAL must be between 10 and 3600 seconds">> ELSE <<>>)
    \o (IF distribution_sum - 100 > 1 \/ 100 - distribution_sum > 1
        THEN <<"FIRMWARE_DISTRIBUTION must sum to 1.0">> ELSE <<>>)

\* lines 215-220: validate_config raises ValueError when errors is not
\* empty; the import catches it and prints a warning, and goes on
import_config(errors) ==
    IF errors # <<>> THEN "imported with warning" ELSE "imported"

\* the settings of config.py, before the module is imported
InitConfig ==
    /\ VinIdle
    /\ VehicleIdle
    /\ AnalyzerIdle
    /\ FleetIdle
    /\ ManagerIdle
    /\ ProcessorIdle
    /\ S3_BUCKET \in BucketNames
    /\ VEHICLE_COUNT \in VehicleCounts
    /\ TELEMETRY_INTERVAL \in TelemetryIntervals
    /\ FIRMWARE_DISTRIBUTION_sum \in DistributionSums
    /\ config_import = "not imported"

\* import config
ImportConfig ==
    /\ config_import = "not imported"
    /\ config_import' =
         import_config(validate_config(S3_BUCKET, VEHICLE_COUNT, TELEMETRY_INTERVAL,
                                       FIRMWARE_DISTRIBUTION_sum))
    /\ UNCHANGED <<vinVars, gpsVars, vehicleVars, snapshotVars, ticks, analyzerVars,
                   fleetVars, managerVars, processorVars>>
    /\ UNCHANGED <<S3_BUCKET, VEHICLE_COUNT, TELEMETRY_INTERVAL, FIRMWARE_DISTRIBUTION_sum>>

NextVin == Generate \/ CalculateCheckDigit

SpecVin == InitVin /\ [][NextVin]_vars

NextGps == UpdatePosition

SpecGps == InitGps /\ [][NextGps]_vars

NextVehicle == GenerateTelemetry \/ SimulateBatteryDrain \/ SetStatus

SpecVehicle == InitVehicle /\ [][NextVehicle]_vars

\* a constructed vehicle on which only generate_telemetry is called
\* ticks whose dicts the caller keeps
NextTelemetry == KeepTelemetry

SpecTelemetry == InitTelemetry /\ [][NextTelemetry]_vars

\* the same ticks between direct calls of simulate_battery_drain
NextWarnings == KeepTelemetry \/ SimulateBatteryDrain

SpecWarnings == InitWarnings /\ [][NextWarnings]_vars

NextTicks == GenerateTelemetry

SpecTicks == InitVehicle /\ [][NextTicks]_vars

NextSimulation ==
    \/ EnterIteration
    \/ LeaveLoop
    \/ TickVehicle
    \/ UploadToS3
    \/ Sleep
    \/ KeyboardInterrupt
    \/ PrintSummary

SpecSimulation == InitSimulation /\ [][NextSimulation]_vars

NextFleetTicks == TickAnyVehicle

SpecFleetTicks == InitFleetTicks /\ [][NextFleetTicks]_vars

NextAnalyzer == AnalyzeFleet

SpecSparse == InitSparse /\ [][NextAnalyzer]_vars

NextManager == LambdaHandler

NextConfig == ImportConfig

SpecConfig == InitConfig /\ [][NextConfig]_vars

NextProcessor == ProcessorHandler

SpecProcessor == InitProcessor /\ [][NextProcessor]_vars

SpecManager == InitManager /\ [][NextManager]_vars

SpecAnalyzer == InitAnalyzer /\ [][NextAnalyzer]_vars

(***************************************************************************)
(* Properties                                                              *)
(***************************************************************************)

\* C1: after any sequence of ticks of a constructed vehicle, in any status,
\* battery_percent is at least 5 and at most 100.
C1_BatteryWithinBounds ==
    /\ battery_percent >= 5 * BatteryScale
    /\ battery_percent <= 100 * BatteryScale

\* a drain has brought the battery down to its floor
C1_Witness ==
    /\ ticks > 0
    /\ status = ONLINE
    /\ battery_percent = 5 * BatteryScale

\* C2: after every update_position call, latitude is within [-90, 90],
\* longitude within [-180, 180] and speed_kmh within [0, 120].
C2_PositionAndSpeedWithinBounds ==
    ticks > 0 =>
        /\ latitude >= -90 * DegScale /\ latitude <= 90 * DegScale
        /\ longitude >= -180 * DegScale /\ longitude <= 180 * DegScale
        /\ speed_kmh >= 0 /\ speed_kmh <= 120

\* the last allowed call is made at the speed limit, on the edge of the map
C2_Witness ==
    /\ ticks = MaxGpsCalls
    /\ speed_kmh = 120
    /\ latitude = 85 * DegScale
    /\ longitude = 180 * DegScale

\* the vehicle_id values of the snapshots that were read
ReadIds == {Get(telemetry_files[i].body, "vehicle_id", None) :
                i \in {j \in 1..Len(telemetry_files) : telemetry_files[j].ok}}

\* the keys vehicles_by_status can hold
BucketKeys == {"updating", "offline", "up_to_date", "low_battery", "eligible"}

\* how many times vehicle_id occurs in the list under key
Occurrences(key, vehicle_id) ==
    IF key \in DOMAIN fleet_status.vehicles_by_status
    THEN Cardinality({i \in 1..Len(fleet_status.vehicles_by_status[key]) :
                         fleet_status.vehicles_by_status[key][i] = vehicle_id})
    ELSE 0

\* vehicle_id is listed once under key and under no other key
ListedOnlyUnder(key, vehicle_id) ==
    \A k \in BucketKeys :
        Occurrences(k, vehicle_id) = (IF k = key THEN 1 ELSE 0)

\* C3: the five bucket counts sum to total_vehicles, total_vehicles is the
\* number of distinct vehicle_id values read, and every such vehicle_id is in
\* exactly one of the vehicles_by_status lists.
C3_BucketsPartitionTheFleet ==
    fleet_status # NoReport =>
        /\ fleet_status.update_in_progress + fleet_status.offline
             + fleet_status.up_to_date + fleet_status.insufficient_battery
             + fleet_status.update_eligible = fleet_status.total_vehicles
        /\ fleet_status.total_vehicles = Cardinality(ReadIds)
        /\ \A id \in ReadIds : \E key \in BucketKeys : ListedOnlyUnder(key, id)

\* two snapshots of the same vehicle, differing in status, give one vehicle
C3_Witness ==
    /\ fleet_status # NoReport
    /\ Len(telemetry_files) = MaxFiles
    /\ \A k \in 1..Len(telemetry_files) : telemetry_files[k].ok
    /\ \A k \in 2..Len(telemetry_files) :
         /\ telemetry_files[k].body.vehicle_id = telemetry_files[1].body.vehicle_id
         /\ telemetry_files[k].body.status # telemetry_files[1].body.status
    /\ fleet_status.total_vehicles = 1

\* C4: a vehicle whose latest snapshot has status "updating" is in the
\* UPDATING bucket and one with status "offline" in the OFFLINE bucket,
\* whatever its firmware version and battery percent.
C4_UpdatingAndOfflineFirst ==
    fleet_status # NoReport =>
        \A i \in 1..Len(vehicles) :
            LET st == Get(vehicles[i].telemetry, "status", "unknown")
            IN  /\ st = "updating" => ListedOnlyUnder("updating", vehicles[i].vehicle_id)
                /\ st = "offline" => ListedOnlyUnder("offline", vehicles[i].vehicle_id)

\* an offline vehicle on the latest firmware and an updating one on it too
C4_Witness ==
    /\ fleet_status # NoReport
    /\ \E i, j \in 1..Len(vehicles) :
         /\ vehicles[i].telemetry.status = "offline"
         /\ vehicles[i].telemetry.firmware = LATEST_FIRMWARE_VERSION
         /\ vehicles[j].telemetry.status = "updating"
         /\ vehicles[j].telemetry.firmware = LATEST_FIRMWARE_VERSION
         /\ fleet_status.offline = 1
         /\ fleet_status.update_in_progress = 1

\* C5: a vehicle neither updating nor offline is UP_TO_DATE iff its firmware
\* is the latest; otherwise INSUFFICIENT_BATTERY iff its battery percent is
\* below 50 and ELIGIBLE iff it is at least 50.
C5_FirmwareThenBattery ==
    fleet_status # NoReport =>
        \A i \in 1..Len(vehicles) :
            LET t == vehicles[i].telemetry
                id == vehicles[i].vehicle_id
                fw == Get(t, "firmware", "unknown")
                bp == Get(t, "battery", 0)
            IN  Get(t, "status", "unknown") \notin {"updating", "offline"} =>
                    /\ ListedOnlyUnder("up_to_date", id) <=> fw = LATEST_FIRMWARE_VERSION
                    /\ fw # LATEST_FIRMWARE_VERSION =>
                        /\ ListedOnlyUnder("low_battery", id) <=> bp < 50
                        /\ ListedOnlyUnder("eligible", id) <=> bp >= 50

\* a vehicle at exactly 50 percent on old firmware is eligible, and one on
\* the latest firmware at 49 percent is up to date
C5_Witness ==
    /\ fleet_status # NoReport
    /\ \E i, j \in 1..Len(vehicles) :
         /\ vehicles[i].telemetry.status = "online"
         /\ vehicles[i].telemetry.firmware # LATEST_FIRMWARE_VERSION
         /\ vehicles[i].telemetry.battery = 50
         /\ ListedOnlyUnder("eligible", vehicles[i].vehicle_id)
         /\ vehicles[j].telemetry.status = "online"
         /\ vehicles[j].telemetry.firmware = LATEST_FIRMWARE_VERSION
         /\ vehicles[j].telemetry.battery = 49
         /\ ListedOnlyUnder("up_to_date", vehicles[j].vehicle_id)

\* C6: the snapshot classified for a vehicle_id is one that was read, and
\* none of the snapshots read for that vehicle_id has a greater timestamp.
C6_LatestSnapshotClassified ==
    fleet_status # NoReport =>
        /\ \A id \in ReadIds : \E i \in 1..Len(vehicles) : vehicles[i].vehicle_id = id
        /\ \A i \in 1..Len(vehicles) :
            /\ \E k \in 1..Len(telemetry_files) :
                 /\ telemetry_files[k].ok
                 /\ telemetry_files[k].body = vehicles[i].telemetry
            /\ \A k \in 1..Len(telemetry_files) :
                 (/\ telemetry_files[k].ok
                  /\ Get(telemetry_files[k].body, "vehicle_id", None)
                       = vehicles[i].vehicle_id)
                 => ~StrGreater(Get(telemetry_files[k].body, "timestamp", <<>>),
                                Get(vehicles[i].telemetry, "timestamp", <<>>))

\* the newest snapshot of a vehicle arrives first and an older one, with
\* another status, after it
C6_Witness ==
    /\ fleet_status # NoReport
    /\ Len(telemetry_files) = MaxFiles
    /\ \A k \in 1..Len(telemetry_files) :
         telemetry_files[k].ok /\ telemetry_files[k].body.vehicle_id = 1
    /\ telemetry_files[1].body.timestamp = <<"1", "0">>
    /\ \A k \in 2..Len(telemetry_files) :
         /\ telemetry_files[k].body.timestamp = <<"0", "9">>
         /\ telemetry_files[k].body.status # telemetry_files[1].body.status
    /\ vehicles[1].telemetry = telemetry_files[1].body

\* C7: recomputing the check digit of a generated VIN from its other 16
\* characters returns its ninth character.
C7_CheckDigitRecomputes ==
    vin # NoVin =>
        calculate_check_digit(Prefix(vin, 8) \o Suffix(vin, 9)) = vin[9]

\* the weights of the 16 characters by their position in the VIN
PositionWeights == <<8, 7, 6, 5, 4, 3, 2, 10, 9, 8, 7, 6, 5, 4, 3, 2>>

RECURSIVE PositionTotal(_, _)
PositionTotal(s, k) ==
    IF k = 0 THEN 0
    ELSE PositionTotal(s, k - 1) + CharValue(s[k]) * PositionWeights[k]

\* C8: for a 16-character input calculate_check_digit returns the check digit
\* of the recognized scheme, every character weighted by its position in the
\* 17-character VIN, as a single character of 0123456789X.
C8_RecognizedCheckDigit ==
    check_digit # NoDigit =>
        LET s == VinWithoutCheck(manufacturer, vds, year_code, plant_code, serial)
            r == PositionTotal(s, Len(s)) % 11
        IN  /\ check_digit \in DigitSet \cup {"X"}
            /\ check_digit = (IF r = 10 THEN "X" ELSE Digits[r + 1])

\* C9: every generated identifier, for any manufacturer argument, has exactly
\* 17 characters and none of them is I, O or Q.
C9_SeventeenCharactersNoIOQ ==
    vin # NoVin =>
        /\ Len(vin) = 17
        /\ \A i \in 1..Len(vin) : vin[i] \notin {"I", "O", "Q"}

\* a VIN generated for a manufacturer outside the table, with the check digit X
C9_Witness ==
    /\ vin # NoVin
    /\ manufacturer \notin DOMAIN WMI_CODES
    /\ Prefix(vin, 3) = <<"5", "Y", "J">>
    /\ vin[9] = "X"

\* C10: generate_telemetry never moves a vehicle out of UPDATING or ERROR.
C10_UpdatingAndErrorPersist ==
    [][GenerateTelemetry => (status \in {UPDATING, ERROR} => status' = status)]_vars

\* C11: from a freshly constructed vehicle, ticks never set the status to
\* UPDATING or ERROR: every reachable status is ONLINE or OFFLINE, so the
\* only status changes a tick can make are ONLINE to OFFLINE and OFFLINE to
\* ONLINE.
C11_TicksStayOnlineOrOffline == status \in {ONLINE, OFFLINE}

\* ticks have taken the vehicle offline
C11_Witness ==
    /\ ticks > 1
    /\ status = OFFLINE

\* the calls made in iteration k, in the order they were made
CallsOf(k) == SelectSeq(calls, LAMBDA c : c.iteration = k)

\* every vehicle in registry order: its tick, then the offer of its snapshot
ExpectedCalls(k) ==
    [n \in 1..(2 * Len(fleet)) |->
        [op |-> IF n % 2 = 1 THEN "generate_telemetry" ELSE "upload_to_s3",
         vehicle |-> (n + 1) \div 2,
         iteration |-> k]]

\* iteration k has run to the end of its for loop
Completed(k) == k < iteration \/ (k = iteration /\ pc \in {"sleep", "while"})

C13_PublishFailureKeepsTotals ==
    (response # NoResponse /\ ~put_metric_data_ok) =>
        /\ {"total_vehicles", "update_eligible", "update_in_progress"}
             \subseteq DOMAIN response.body
        /\ response.body.total_vehicles = fleet_status.total_vehicles
        /\ response.body.update_eligible = fleet_status.update_eligible
        /\ response.body.update_in_progress = fleet_status.update_in_progress

\* C17: when the list call of get_recent_telemetry fails, the caller of
\* lambda_handler is told of the failure: the handler does not answer with a
\* successful report, which a listing that found no telemetry would give.
C17_ListFailureIsReported ==
    (response # NoResponse /\ ~list_objects_ok) => response.statusCode # 200

\* the files read whose snapshot has no vehicle_id
Unidentified ==
    {k \in 1..Len(telemetry_files) :
        telemetry_files[k].ok /\ "vehicle_id" \notin DOMAIN telemetry_files[k].body}

\* the vehicle_id values present in the snapshots read
PresentIds ==
    {telemetry_files[k].body.vehicle_id :
        k \in {j \in 1..Len(telemetry_files) :
                  telemetry_files[j].ok /\ "vehicle_id" \in DOMAIN telemetry_files[j].body}}

\* C14: for a batch whose snapshots omit any subset of vehicle_id,
\* timestamp, status, firmware and battery, analyze_fleet returns a report:
\* an absent battery is read as 0, and the snapshots lacking vehicle_id are
\* grouped and counted as exactly one vehicle rather than dropped.
C14_MissingFieldsDefaulted ==
    /\ fleet_status = NoReport => ENABLED AnalyzeFleet
    /\ fleet_status # NoReport =>
        /\ fleet_status.total_vehicles
             = Cardinality(PresentIds) + (IF Unidentified = {} THEN 0 ELSE 1)
        /\ Unidentified # {} =>
             /\ Cardinality({i \in 1..Len(vehicles) : vehicles[i].vehicle_id = None}) = 1
             /\ \E key \in BucketKeys : ListedOnlyUnder(key, None)
        /\ \A i \in 1..Len(vehicles) :
             LET t == vehicles[i].telemetry
             IN  (/\ "battery" \notin DOMAIN t
                  /\ Get(t, "status", "unknown") \notin {"updating", "offline"}
                  /\ Get(t, "firmware", "unknown") # LATEST_FIRMWARE_VERSION)
                 => ListedOnlyUnder("low_battery", vehicles[i].vehicle_id)

\* every snapshot of a full batch lacks vehicle_id, the first lacks battery
\* and status too, and the report counts one vehicle with a low battery
C14_Witness ==
    /\ fleet_status # NoReport
    /\ Len(telemetry_files) = MaxFiles
    /\ Unidentified = 1..MaxFiles
    /\ DOMAIN telemetry_files[1].body = {"timestamp", "firmware"}
    /\ fleet_status.total_vehicles = 1
    /\ fleet_status.insufficient_battery = 1
    /\ ListedOnlyUnder("low_battery", None)

\* C15: when handling one record of an event fails, every other record of
\* the event is still downloaded, processed and published.
C15_RecordFailureIsolated ==
    processor_response # NoResponse =>
        \A i \in 1..Len(records) :
            records[i].fails = "none" => progress[i] = "published"

\* the batch with the files that cannot be downloaded or parsed removed
ReadableFiles == SelectSeq(telemetry_files, LAMBDA file : file.ok)

\* C16: a file whose download or parsing fails is skipped, and the report
\* is the report of the batch with the failing files removed, however many
\* files fail.
C16_FailedFilesSkipped ==
    fleet_status # NoReport =>
        LET vs == LatestPerVehicle(ReadableFiles, Len(ReadableFiles))
        IN  /\ vehicles = vs
            /\ fleet_status = Classify(vs, Len(vs))

\* the first file of a batch fails and the last one is read and counted
C16_Witness ==
    /\ fleet_status # NoReport
    /\ Len(telemetry_files) = MaxFiles
    /\ ~telemetry_files[1].ok
    /\ telemetry_files[MaxFiles].ok
    /\ Len(ReadableFiles) < Len(telemetry_files)
    /\ fleet_status.total_vehicles >= 1

\* C18: a violation of an invariant checked by validate_config is fatal at
\* startup: loading the configuration does not complete normally.
C18_InvalidConfigurationIsFatal ==
    (/\ config_import # "not imported"
     /\ validate_config(S3_BUCKET, VEHICLE_COUNT, TELEMETRY_INTERVAL,
                        FIRMWARE_DISTRIBUTION_sum) # <<>>)
    => config_import \notin {"imported", "imported with warning"}

\* how many times run_simulation has made the call op on vehicle i
CallCount(op, i) ==
    Len(SelectSeq(calls, LAMBDA c : c.op = op /\ c.vehicle = i))

\* C19: when the loop of run_simulation stops because of an interrupt,
\* every vehicle has completed the same number of ticks and none has been
\* ticked without its snapshot having been offered for upload.
C19_InterruptBetweenIterations ==
    interrupted =>
        \A i, j \in 1..Len(fleet) :
            /\ CallCount("generate_telemetry", i) = CallCount("generate_telemetry", j)
            /\ CallCount("generate_telemetry", i) = CallCount("upload_to_s3", i)

C21_IdentityKeptAndEmitted ==
    [][/\ self_vehicle_id' = self_vehicle_id
       /\ self_vin' = self_vin
       /\ returned_telemetry' # NoTelemetry =>
              /\ returned_telemetry'.vehicle_id = self_vehicle_id
              /\ returned_telemetry'.vin = self_vin]_vars

\* vehicle 42 has emitted as many dicts as the model lets it
C21_Witness ==
    /\ ticks = MaxTicks
    /\ self_vehicle_id = 42
    /\ returned_telemetry # NoTelemetry
    /\ returned_telemetry.vehicle_id = 42
    /\ returned_telemetry.vin = self_vin

\* C22: across any sequence of ticks of a vehicle, in every status,
\* odometer_km after a tick is greater than or equal to its value before.
C22_OdometerNeverDecreases == [][odometer_km' >= odometer_km]_vars

\* a vehicle that is not ONLINE has been ticked and has moved
C22_Witness ==
    /\ status \in {UPDATING, ERROR}
    /\ ticks > 0
    /\ odometer_km > 1000 * OdoScale

\* the dict t lists the warning w
Warned(t, w) ==
    \E k \in 1..Len(t.diagnostics.warnings) : t.diagnostics.warnings[k] = w

C24_EligibilityRate ==
    response # NoResponse =>
        /\ metric_data # NoMetrics
        /\ LET rate == metric_data.UpdateEligibilityRate
               eligible == fleet_status.update_eligible * 100 * RateScale
               total == Max(fleet_status.total_vehicles, 1)
           IN  /\ rate * total <= eligible
               /\ eligible < (rate + 1) * total
               /\ fleet_status.total_vehicles = 0 => rate = 0
               /\ rate >= 0
               /\ rate <= 100 * RateScale

\* one of two vehicles is eligible: a rate of 50 percent
C24_Witness ==
    /\ response # NoResponse
    /\ fleet_status.total_vehicles = 2
    /\ fleet_status.update_eligible = 1
    /\ metric_data.UpdateEligibilityRate = 50 * RateScale

\* C25: a tick of a vehicle that starts it OFFLINE, UPDATING or ERROR leaves
\* battery_percent as it was, also when the tick brings the vehicle ONLINE;
\* no other step of such a vehicle changes the battery either.
C25_BatteryChangesOnlyOnline ==
    [][status # ONLINE => battery_percent' = battery_percent]_vars

\* a tick has moved a vehicle whose battery is still full: an ONLINE tick
\* would have drained it
C25_Witness ==
    /\ odometer_km > 1000 * OdoScale
    /\ battery_percent = 100 * BatteryScale

C26_DrainFollowsInterval ==
    [][pc = "for" /\ pc' = "upload" =>
         LET before == fleet[cursor]
             after == fleet'[cursor]
             drain == before.battery_percent - after.battery_percent
         IN  (/\ before.status = ONLINE
              /\ after.battery_percent <= before.battery_percent
              /\ after.battery_percent > 5 * BatteryScale) =>
                 /\ drain * 60 >= 1 * interval_seconds
                 /\ drain * 60 <= 5 * interval_seconds]_vars

\* C28: run_simulation always ends with _print_summary completed, also when
\* no upload was attempted and when the fleet is empty.
C28_SummaryAlwaysCompletes == pc = "done" => summary = "printed"

\* the report with each list of vehicles_by_status taken as a set
ReportAsSets(fs) ==
    [total_vehicles |-> fs.total_vehicles,
     update_eligible |-> fs.update_eligible,
     update_in_progress |-> fs.update_in_progress,
     up_to_date |-> fs.up_to_date,
     insufficient_battery |-> fs.insufficient_battery,
     offline |-> fs.offline,
     firmware_distribution |-> fs.firmware_distribution,
     vehicles_by_status |->
         [key \in DOMAIN fs.vehicles_by_status |->
             {fs.vehicles_by_status[key][n] :
                 n \in 1..Len(fs.vehicles_by_status[key])}]]

\* the batch files read in the order p
Reordered(files, p) == [n \in 1..Len(files) |-> files[p[n]]]

\* C27: the report of analyze_fleet is the same, lists taken as sets, for
\* every permutation of the batch, also when two snapshots of one vehicle
\* carry equal timestamps and differ in status, firmware or battery.
C27_ReportIgnoresOrder ==
    fleet_status # NoReport =>
        \A p \in Permutations(1..Len(telemetry_files)) :
            LET files == Reordered(telemetry_files, p)
                vs == LatestPerVehicle(files, Len(files))
            IN  ReportAsSets(Classify(vs, Len(vs))) = ReportAsSets(fleet_status)

\* the dict t as analyze_fleet reads it back from the file it was stored
\* in: the keys it looks at, the battery in the whole percents the
\* classification compares (the floor is below the threshold exactly when
\* the battery is)
StoredSnapshot(t) ==
    [vehicle_id |-> t.vehicle_id,
     timestamp |-> t.timestamp,
     status |-> t.status,
     firmware |-> t.firmware.current_version,
     battery |-> t.battery.percent \div BatteryScale]

====
